---- MODULE Spec2Model ----
(***************************************************************************)
(* Model of the GitHub-backed publish / patch handlers of the orchestrator *)
(* API (latest revision of the server file): upsertGithubFile with its     *)
(* 409 retry loop, POST /publish-slug-github, POST /patch-slug-github,     *)
(* POST /patch-section-github and GET /slug-files; and of the first        *)
(* revision's POST /patch-slug-github, which awaits Promise.all(ops).      *)
(*                                                                         *)
(* Text is a sequence of tokens.  A token is one character ("a", "-", ...) *)
(* or one of the literal pieces of the section markers ("<!-- SECTION:",   *)
(* ":start -->", ":end -->").  No marker contains a line feed, so a marker *)
(* occurrence can never straddle the "\n" joints the splice inserts.       *)
(***************************************************************************)
EXTENDS Integers, Sequences, FiniteSets, TLC

\* ------------------------------------------------------------------ bounds
MaxFaults == 1
MaxSlugLen == 3

\* ------------------------------------------------------- program constants
MaxAttempts == 5
BackoffUnit == 150

\* ------------------------------------------------------------ text helpers
LF == "\n"
LoneSurrogate == "U+D800"
ReplacementChar == "U+FFFD"
CombiningAcute == "U+0301"

\* String.prototype.indexOf(m): 0-based index of the first occurrence, or -1
IndexOf(s, m) ==
  LET hits == {i \in 0..(Len(s) - Len(m)) : SubSeq(s, i + 1, i + Len(m)) = m}
  IN IF hits = {} THEN -1 ELSE CHOOSE i \in hits : \A j \in hits : i <= j

\* String.prototype.slice(a, b) for 0 <= a, b
Slice(s, a, b) ==
  LET hi == IF b > Len(s) THEN Len(s) ELSE b
  IN IF a >= hi THEN <<>> ELSE SubSeq(s, a + 1, hi)

\* String.prototype.slice(a)
SliceFrom(s, a) == Slice(s, a, Len(s))

\* faulty variant: Buffer.from(content, "latin1"), whose bytes above 0x7f do
\* not decode as UTF-8
Utf8Latin1(content) ==
  [i \in 1..Len(content) |->
     IF content[i] \in {LoneSurrogate, "é"} THEN ReplacementChar ELSE content[i]]

\* Buffer.from(content, "utf8") followed by the store's base64 round trip:
\* an unpaired surrogate is encoded as U+FFFD, every other character is kept
Utf8(content) ==
  [i \in 1..Len(content) |->
     IF content[i] = LoneSurrogate THEN ReplacementChar ELSE content[i]]

\* ---------------------------------------------------------------- slugify
LowerAlnum == {"a", "b", "c", "d", "e", "f", "m", "n", "o", "x", "y", "0", "1"}
WhiteSpace == {" ", LF}

\* String.prototype.normalize("NFD") on one character
NFDChar(c) == IF c = "é" THEN <<"e", CombiningAcute>> ELSE <<c>>

\* String.prototype.toLowerCase on one character
LowerChar(c) ==
  CASE c = "M" -> "m"
    [] c = "C" -> "c"
    [] c = "X" -> "x"
    [] c = "Y" -> "y"
    [] OTHER -> c

\* String.prototype.normalize("NFD")
RECURSIVE NormalizeNFD(_)
NormalizeNFD(s) ==
  IF s = <<>> THEN <<>> ELSE NFDChar(Head(s)) \o NormalizeNFD(Tail(s))

\* .replace(/[\u0300-\u036f]/g, ""): the combining marks are removed
StripCombining(s) == SelectSeq(s, LAMBDA c : c # CombiningAcute)

ToLowerCase(s) == [i \in 1..Len(s) |-> LowerChar(s[i])]

RECURSIVE TrimLeft(_)
TrimLeft(s) ==
  IF s # <<>> /\ Head(s) \in WhiteSpace THEN TrimLeft(Tail(s)) ELSE s

RECURSIVE TrimRight(_)
TrimRight(s) ==
  IF s # <<>> /\ s[Len(s)] \in WhiteSpace
  THEN TrimRight(SubSeq(s, 1, Len(s) - 1)) ELSE s

\* String.prototype.trim
Trim(s) == TrimRight(TrimLeft(s))

\* .replace(/[^a-z0-9]+/g, "-"): every maximal run of other characters
\* becomes one "-"
RECURSIVE ReplaceNonAlnumRuns(_, _)
ReplaceNonAlnumRuns(s, inRun) ==
  IF s = <<>> THEN <<>>
  ELSE IF Head(s) \in LowerAlnum
       THEN <<Head(s)>> \o ReplaceNonAlnumRuns(Tail(s), FALSE)
       ELSE IF inRun THEN ReplaceNonAlnumRuns(Tail(s), TRUE)
            ELSE <<"-">> \o ReplaceNonAlnumRuns(Tail(s), TRUE)

\* .replace(/-+/g, "-")
RECURSIVE CollapseDashes(_, _)
CollapseDashes(s, inRun) ==
  IF s = <<>> THEN <<>>
  ELSE IF Head(s) # "-"
       THEN <<Head(s)>> \o CollapseDashes(Tail(s), FALSE)
       ELSE IF inRun THEN CollapseDashes(Tail(s), TRUE)
            ELSE <<"-">> \o CollapseDashes(Tail(s), TRUE)

\* faulty variant: .replace(/^-/, ""), the trailing "-" stays
StripLeadingDash(s) == IF s # <<>> /\ Head(s) = "-" THEN Tail(s) ELSE s

\* .replace(/^-|-$/g, ""): one leading and one trailing "-" are removed
StripEdgeDash(s) ==
  LET t == IF s # <<>> /\ Head(s) = "-" THEN Tail(s) ELSE s
  IN IF t # <<>> /\ t[Len(t)] = "-" THEN SubSeq(t, 1, Len(t) - 1) ELSE t

\* faulty variant: the edge "-" are stripped before the runs are replaced
slugifyStripFirst(input) ==
  CollapseDashes(
    ReplaceNonAlnumRuns(
      StripEdgeDash(Trim(ToLowerCase(StripCombining(NormalizeNFD(input))))),
      FALSE),
    FALSE)

slugify(input) ==
  StripEdgeDash(
    CollapseDashes(
      ReplaceNonAlnumRuns(
        Trim(ToLowerCase(StripCombining(NormalizeNFD(input)))), FALSE),
      FALSE))

\* slugify(section).replace(/-/g, "")
SectionName(section) == SelectSeq(slugify(section), LAMBDA c : c # "-")

\* ---------------------------------------------------------- section splice
startMarker(sectionName) == <<"<!-- SECTION:">> \o sectionName \o <<":start -->">>
endMarker(sectionName) == <<"<!-- SECTION:">> \o sectionName \o <<":end -->">>

startIdx(currentHtml, sectionName) == IndexOf(currentHtml, startMarker(sectionName))

\* faulty variant: currentHtml.lastIndexOf(endMarker)
endIdxLast(currentHtml, sectionName) ==
  LET m == endMarker(sectionName)
      hits == {i \in 0..(Len(currentHtml) - Len(m)) :
                 SubSeq(currentHtml, i + 1, i + Len(m)) = m}
  IN IF hits = {} THEN -1 ELSE CHOOSE i \in hits : \A j \in hits : i >= j

\* currentHtml.indexOf(endMarker)
endIdx(currentHtml, sectionName) == IndexOf(currentHtml, endMarker(sectionName))

\* faulty variant: the order of the two markers is not tested
SectionMissingNoOrder(currentHtml, sectionName) ==
  \/ startIdx(currentHtml, sectionName) = -1
  \/ endIdx(currentHtml, sectionName) = -1

\* if (startIdx === -1 || endIdx === -1 || endIdx <= startIdx)
SectionMissing(currentHtml, sectionName) ==
  \/ startIdx(currentHtml, sectionName) = -1
  \/ endIdx(currentHtml, sectionName) = -1
  \/ endIdx(currentHtml, sectionName) <= startIdx(currentHtml, sectionName)

\* faulty variant: the kept head stops in front of the start-marker
beforeNoMarker(currentHtml, sectionName) ==
  Slice(currentHtml, 0, startIdx(currentHtml, sectionName))

\* currentHtml.slice(0, startIdx + startMarker.length)
before(currentHtml, sectionName) ==
  Slice(currentHtml, 0,
        startIdx(currentHtml, sectionName) + Len(startMarker(sectionName)))

\* faulty variant: the kept tail starts behind the end-marker
afterPastMarker(currentHtml, sectionName) ==
  SliceFrom(currentHtml,
            endIdx(currentHtml, sectionName) + Len(endMarker(sectionName)))

\* currentHtml.slice(endIdx)
after(currentHtml, sectionName) ==
  SliceFrom(currentHtml, endIdx(currentHtml, sectionName))

\* faulty variant: the fragment is put behind the start-marker and the old
\* interior stays
nextHtmlKeepOld(currentHtml, sectionName, htmlFragment) ==
  before(currentHtml, sectionName) \o <<LF>> \o htmlFragment \o <<LF>>
    \o SliceFrom(currentHtml,
                 startIdx(currentHtml, sectionName) + Len(startMarker(sectionName)))

\* `${before}\n${htmlFragment}\n${after}`
nextHtml(currentHtml, sectionName, htmlFragment) ==
  before(currentHtml, sectionName) \o <<LF>> \o htmlFragment \o <<LF>>
    \o after(currentHtml, sectionName)

\* ------------------------------------------------------------ remote store
NoSha == 0
FaultStatuses == {401, 500}
FileNames == {"/index.html", "/README.txt", "/styles/main.css", "/js/main.js"}

\* faulty variant: the file name without the slug's directory
PathNoSlug(safeSlug, name) == <<name>>

\* `${safeSlug}/index.html` etc.  encodeURIComponent(...).replace(/%2F/g, "/")
\* leaves a path made of [a-z0-9-] and "/" as it is.
Path(safeSlug, name) == safeSlug \o <<name>>

Procs == {"r1", "r2"}

VARIABLES
  store,       \* path -> [exists, content, sha]: the repository's contents
  nextSha,     \* the next fresh version token the store hands out
  stalePaths,  \* paths on which the store reports a stale token for every write
  faults,      \* transport / auth failures the store may still answer with
  envOk,       \* HUB_REPO_OWNER, HUB_REPO_NAME and GITHUB_TOKEN are all set
  kind,        \* request -> the route it was sent to
  body,        \* request -> req.body
  pc,          \* request -> the await the handler is suspended at
  files,       \* request -> the list of {path, content} it upserts
  fileIdx,     \* request -> index of the file being upserted
  attempt,     \* request -> upsertGithubFile's loop counter
  sha,         \* request -> upsertGithubFile's sha of the current attempt
  currentHtml, \* request -> the document patch-section read
  basis,       \* request -> the sha that came with currentHtml (history)
  hist,        \* request -> the store requests and waits it made (history)
  ops,         \* request -> the upserts its first-revision handler started
  resp         \* request -> the HTTP response it sent

vars == <<store, nextSha, stalePaths, faults, envOk, kind, body, pc, files,
          fileIdx, attempt, sha, currentHtml, basis, hist, ops, resp>>

\* the json of an answer: its status, ok, error (upstream: the store status
\* the error text quotes), slug and files
NoResp ==
  [http |-> 0, ok |-> FALSE, error |-> "", upstream |-> 0, slug |-> <<>>,
   files |-> <<>>]
Response(http, ok, error, upstream) ==
  [http |-> http, ok |-> ok, error |-> error, upstream |-> upstream,
   slug |-> <<>>, files |-> <<>>]

\* what the repository holds under a path: a path never written is absent
StoreAt(path) ==
  IF path \in DOMAIN store THEN store[path]
  ELSE [exists |-> FALSE, content |-> <<>>, sha |-> NoSha]

\* one store request (or backoff wait) of a request; cur is the path's token
\* when the store handled it, tok the token an accepted write produced
Event(op, path, s, status, cur, tok, att, ms) ==
  [op |-> op, path |-> path, sha |-> s, status |-> status, cur |-> cur,
   tok |-> tok, attempt |-> att, ms |-> ms]

\* GET /contents/{path}: 200 with the sha, 404 when there is no such file,
\* or a transport / auth failure
GetStatuses(path) ==
  (IF StoreAt(path).exists THEN {200} ELSE {404})
    \cup (IF faults > 0 THEN FaultStatuses ELSE {})

\* PUT /contents/{path}: compare-and-swap on the version token.  A write
\* without sha onto an existing file is rejected; the contract does not say
\* with which status, so both a conflict and a validation status may come.
PutStatuses(path, s) ==
  (IF path \in stalePaths THEN {409}
   ELSE IF store[path].exists
        THEN (IF s = store[path].sha THEN {200}
              ELSE IF s = NoSha THEN {409, 422} ELSE {409})
        ELSE (IF s = NoSha THEN {201} ELSE {409}))
    \cup (IF faults > 0 THEN FaultStatuses ELSE {})

\* Response.ok of node-fetch
IsOk(status) == status >= 200 /\ status < 300

Committed(path, content) ==
  [store EXCEPT ![path] =
     [exists |-> TRUE, content |-> Utf8(content), sha |-> nextSha]]

\* res.status(..).json(..): the handler is finished
Respond(p, r) ==
  /\ resp' = [resp EXCEPT ![p] = r]
  /\ pc' = [pc EXCEPT ![p] = "done"]

Log(p, e) == hist' = [hist EXCEPT ![p] = Append(@, e)]

filePath(p) == files[p][fileIdx[p]].path

\* faulty variant: every file is written with the first file's content
contentFirst(p) == files[p][1].content

content(p) == files[p][fileIdx[p]].content

\* the json the handler answers with once its last upsert has returned
Success(p) ==
  [Response(200, TRUE, "", 0) EXCEPT !.slug = slugify(body[p].slug)]

\* faulty variant: the handler answers after its first upsert
ReturnEarly(p) ==
  /\ Respond(p, Success(p))
  /\ UNCHANGED <<fileIdx, attempt>>

\* upsertGithubFile returned: the handler's loop goes on to its next file,
\* and after the last one the handler answers ok: true
Return(p) ==
  IF fileIdx[p] < Len(files[p])
  THEN /\ fileIdx' = [fileIdx EXCEPT ![p] = @ + 1]
       /\ attempt' = [attempt EXCEPT ![p] = 1]
       /\ pc' = [pc EXCEPT ![p] = "get"]
       /\ UNCHANGED resp
  ELSE /\ Respond(p, Success(p))
       /\ UNCHANGED <<fileIdx, attempt>>

\* faulty variant: a failed upsert is swallowed and the loop goes on
ThrowSwallowed(p, r) ==
  IF fileIdx[p] < Len(files[p])
  THEN /\ fileIdx' = [fileIdx EXCEPT ![p] = @ + 1]
       /\ attempt' = [attempt EXCEPT ![p] = 1]
       /\ pc' = [pc EXCEPT ![p] = "get"]
       /\ UNCHANGED resp
  ELSE /\ Respond(p, r)
       /\ UNCHANGED <<fileIdx, attempt>>

\* upsertGithubFile threw: the handler's catch block answers 500 with the
\* error's message, and nothing of the handler runs after it
Throw(p, r) ==
  /\ Respond(p, r)
  /\ UNCHANGED <<fileIdx, attempt>>

\* faulty variant: the handlers go on without the store's credentials
EnvMissingIgnored == FALSE

\* if (!owner || !repo || !token)
EnvMissing == ~envOk

\* faulty variant: the sha is fetched by the first attempt only
ObservedShaStale(p, st) ==
  IF attempt[p] > 1 THEN sha[p]
  ELSE IF st = 200 THEN store[filePath(p)].sha ELSE NoSha

\* faulty variant: sha is not reset, a 404 read leaves the last sha in place
ObservedShaKept(p, st) == IF st = 200 THEN store[filePath(p)].sha ELSE sha[p]

\* let sha = undefined; if (getRes.status === 200) sha = json.sha
ObservedSha(p, st) == IF st = 200 THEN store[filePath(p)].sha ELSE NoSha

\* faulty variant: every rejected write is retried, whatever its status
ShouldRetryAny(st, att) == att < MaxAttempts

\* faulty variant: the call gives up one attempt early
ShouldRetryEarly(st, att) == st = 409 /\ att < MaxAttempts - 1

\* faulty variant: the ceiling is tested one attempt too late
ShouldRetryLate(st, att) == st = 409 /\ att <= MaxAttempts

\* if (putRes.status === 409 && attempt < 5)
ShouldRetry(st, att) == st = 409 /\ att < MaxAttempts

\* ------------------------------------------------------- upsertGithubFile
\* 1) GET sha (si existe)
UpsertGet(p) ==
  /\ pc[p] = "get"
  /\ \E st \in GetStatuses(filePath(p)) :
       /\ faults' = IF st \in FaultStatuses THEN faults - 1 ELSE faults
       /\ Log(p, Event("GET", filePath(p), ObservedSha(p, st), st,
                       store[filePath(p)].sha, NoSha, attempt[p], 0))
       /\ IF st = 200 \/ st = 404
          THEN /\ sha' = [sha EXCEPT ![p] = ObservedSha(p, st)]
               /\ pc' = [pc EXCEPT ![p] = "put"]
               /\ UNCHANGED <<resp, fileIdx, attempt>>
          ELSE /\ Throw(p, Response(500, FALSE, "GitHub GET failed", st))
               /\ UNCHANGED sha
  /\ UNCHANGED ops
  /\ UNCHANGED <<store, nextSha, stalePaths, envOk, kind, body, files,
                 currentHtml, basis>>

\* 2) PUT with sha (if exists); the return into the handler's loop or its
\* catch block belongs to the same step
UpsertPut(p) ==
  /\ pc[p] = "put"
  /\ \E st \in PutStatuses(filePath(p), sha[p]) :
       /\ faults' = IF st \in FaultStatuses THEN faults - 1 ELSE faults
       /\ Log(p, Event("PUT", filePath(p), sha[p], st, store[filePath(p)].sha,
                       IF IsOk(st) THEN nextSha ELSE NoSha, attempt[p], 0))
       /\ IF IsOk(st)
          THEN /\ store' = Committed(filePath(p), content(p))
               /\ nextSha' = nextSha + 1
               /\ Return(p)
          ELSE /\ UNCHANGED <<store, nextSha>>
               /\ IF ShouldRetry(st, attempt[p])
                  THEN /\ pc' = [pc EXCEPT ![p] = "backoff"]
                       /\ UNCHANGED <<resp, fileIdx, attempt>>
                  ELSE Throw(p, Response(500, FALSE, "GitHub upsert failed", st))
  /\ UNCHANGED ops
  /\ UNCHANGED <<stalePaths, envOk, kind, body, files, sha, currentHtml, basis>>

\* faulty variant: the same delay after every conflict
BackoffFlat(att) == BackoffUnit

\* setTimeout(r, 150 * attempt)
Backoff(att) == BackoffUnit * att

\* Conflict -> retry: setTimeout(r, 150 * attempt), then the next iteration
UpsertBackoff(p) ==
  /\ pc[p] = "backoff"
  /\ Log(p, Event("WAIT", filePath(p), NoSha, 0, store[filePath(p)].sha, NoSha,
                  attempt[p], Backoff(attempt[p])))
  /\ attempt' = [attempt EXCEPT ![p] = @ + 1]
  /\ pc' = [pc EXCEPT ![p] = "get"]
  /\ UNCHANGED ops
  /\ UNCHANGED <<store, nextSha, stalePaths, faults, envOk, kind, body, files,
                 fileIdx, sha, currentHtml, basis, resp>>

\* ------------------------------------------- POST /patch-section-github
\* validation and configuration checks, then the GET of index.html is sent
PatchStart(p) ==
  /\ pc[p] = "start"
  /\ kind[p] = "patch-section-github"
  /\ IF slugify(body[p].slug) = <<>>
     THEN Respond(p, Response(400, FALSE, "slug requis", 0))
     ELSE IF SectionName(body[p].section) = <<>>
     THEN Respond(p, Response(400, FALSE, "section requise", 0))
     ELSE IF ~body[p].hasFragment \/ body[p].htmlFragment = <<>>
     THEN Respond(p, Response(400, FALSE, "htmlFragment requis", 0))
     ELSE IF EnvMissing
     THEN Respond(p, Response(500, FALSE, "GitHub env missing", 0))
     ELSE /\ pc' = [pc EXCEPT ![p] = "patchRead"]
          /\ UNCHANGED resp
  /\ UNCHANGED ops
  /\ UNCHANGED <<store, nextSha, stalePaths, faults, envOk, kind, body, files,
                 fileIdx, attempt, sha, currentHtml, basis, hist>>

indexPath(p) == Path(slugify(body[p].slug), "/index.html")

\* the answer to the GET of index.html, the marker search, the splice and
\* the call of upsertGithubFile up to its first fetch
PatchRead(p) ==
  /\ pc[p] = "patchRead"
  /\ \E st \in GetStatuses(indexPath(p)) :
       LET doc == store[indexPath(p)].content
           name == SectionName(body[p].section)
       IN
       /\ faults' = IF st \in FaultStatuses THEN faults - 1 ELSE faults
       /\ Log(p, Event("GET", indexPath(p),
                       IF st = 200 THEN store[indexPath(p)].sha ELSE NoSha,
                       st, store[indexPath(p)].sha, NoSha, 0, 0))
       /\ IF ~IsOk(st)
          THEN /\ Respond(p, Response(500, FALSE, "GitHub GET index.html failed", st))
               /\ UNCHANGED <<files, fileIdx, attempt, currentHtml, basis>>
          ELSE /\ currentHtml' = [currentHtml EXCEPT ![p] = doc]
               /\ basis' = [basis EXCEPT ![p] = store[indexPath(p)].sha]
               /\ IF SectionMissing(doc, name)
                  THEN /\ Respond(p, Response(400, FALSE,
                                     "Section introuvable dans index.html", 0))
                       /\ UNCHANGED <<files, fileIdx, attempt>>
                  ELSE /\ files' = [files EXCEPT ![p] =
                            <<[path |-> indexPath(p),
                               content |-> nextHtml(doc, name, body[p].htmlFragment)]>>]
                       /\ fileIdx' = [fileIdx EXCEPT ![p] = 1]
                       /\ attempt' = [attempt EXCEPT ![p] = 1]
                       /\ pc' = [pc EXCEPT ![p] = "get"]
                       /\ UNCHANGED resp
  /\ UNCHANGED ops
  /\ UNCHANGED <<store, nextSha, stalePaths, envOk, kind, body, sha>>

\* ------------------------------------------- POST /publish-slug-github
README(projectName, safeSlug) ==
  <<"# ">> \o (IF projectName # <<>> THEN projectName ELSE safeSlug)
    \o <<LF, LF, "Publié automatiquement sur https://votresite.be/">>
    \o safeSlug \o <<"/", LF>>

\* typeof v === "string" && v.trim()
NonBlank(has, v) == has /\ Trim(v) # <<>>

\* faulty variant: the generated README is put in front of index.html
PublishFilesReadmeFirst(b) ==
  LET safeSlug == slugify(b.slug)
  IN <<[path |-> Path(safeSlug, "/README.txt"),
        content |-> README(b.projectName, safeSlug)],
       [path |-> Path(safeSlug, "/index.html"), content |-> b.html]>>
     \o (IF NonBlank(b.hasCss, b.css)
         THEN <<[path |-> Path(safeSlug, "/styles/main.css"), content |-> b.css]>>
         ELSE <<>>)
     \o (IF NonBlank(b.hasJs, b.js)
         THEN <<[path |-> Path(safeSlug, "/js/main.js"), content |-> b.js]>>
         ELSE <<>>)

\* const files = [index.html, README.txt]; files.push(css); files.push(js)
PublishFiles(b) ==
  LET safeSlug == slugify(b.slug)
  IN <<[path |-> Path(safeSlug, "/index.html"), content |-> b.html],
       [path |-> Path(safeSlug, "/README.txt"),
        content |-> README(b.projectName, safeSlug)]>>
     \o (IF NonBlank(b.hasCss, b.css)
         THEN <<[path |-> Path(safeSlug, "/styles/main.css"), content |-> b.css]>>
         ELSE <<>>)
     \o (IF NonBlank(b.hasJs, b.js)
         THEN <<[path |-> Path(safeSlug, "/js/main.js"), content |-> b.js]>>
         ELSE <<>>)

\* validation and configuration checks, the file list, and the first
\* upsertGithubFile call up to its first fetch
PublishStart(p) ==
  /\ pc[p] = "start"
  /\ kind[p] = "publish-slug-github"
  /\ IF slugify(body[p].slug) = <<>>
     THEN /\ Respond(p, Response(400, FALSE, "slug requis", 0))
          /\ UNCHANGED <<files, fileIdx, attempt>>
     ELSE IF ~body[p].hasHtml \/ body[p].html = <<>>
     THEN /\ Respond(p, Response(400, FALSE, "html requis", 0))
          /\ UNCHANGED <<files, fileIdx, attempt>>
     ELSE IF EnvMissing
     THEN /\ Respond(p, Response(500, FALSE, "GitHub env missing", 0))
          /\ UNCHANGED <<files, fileIdx, attempt>>
     ELSE /\ files' = [files EXCEPT ![p] = PublishFiles(body[p])]
          /\ fileIdx' = [fileIdx EXCEPT ![p] = 1]
          /\ attempt' = [attempt EXCEPT ![p] = 1]
          /\ pc' = [pc EXCEPT ![p] = "get"]
          /\ UNCHANGED resp
  /\ UNCHANGED ops
  /\ UNCHANGED <<store, nextSha, stalePaths, faults, envOk, kind, body, sha,
                 currentHtml, basis, hist>>

\* --------------------------------------------- POST /patch-slug-github
\* the upserts the handler makes, in the order of its three if statements
PatchSlugFiles(b) ==
  LET safeSlug == slugify(b.slug)
  IN (IF NonBlank(b.hasHtml, b.html)
      THEN <<[path |-> Path(safeSlug, "/index.html"), content |-> b.html]>>
      ELSE <<>>)
     \o (IF NonBlank(b.hasCss, b.css)
         THEN <<[path |-> Path(safeSlug, "/styles/main.css"), content |-> b.css]>>
         ELSE <<>>)
     \o (IF NonBlank(b.hasJs, b.js)
         THEN <<[path |-> Path(safeSlug, "/js/main.js"), content |-> b.js]>>
         ELSE <<>>)

hasAny(b) ==
  NonBlank(b.hasHtml, b.html) \/ NonBlank(b.hasCss, b.css) \/ NonBlank(b.hasJs, b.js)

\* validation and configuration checks, and the first upsertGithubFile call
\* up to its first fetch
PatchSlugStart(p) ==
  /\ pc[p] = "start"
  /\ kind[p] = "patch-slug-github"
  /\ IF slugify(body[p].slug) = <<>>
     THEN /\ Respond(p, Response(400, FALSE, "slug requis", 0))
          /\ UNCHANGED <<files, fileIdx, attempt>>
     ELSE IF EnvMissing
     THEN /\ Respond(p, Response(500, FALSE, "GitHub env missing", 0))
          /\ UNCHANGED <<files, fileIdx, attempt>>
     ELSE IF ~hasAny(body[p])
     THEN /\ Respond(p, Response(400, FALSE, "Aucun contenu à patcher", 0))
          /\ UNCHANGED <<files, fileIdx, attempt>>
     ELSE /\ files' = [files EXCEPT ![p] = PatchSlugFiles(body[p])]
          /\ fileIdx' = [fileIdx EXCEPT ![p] = 1]
          /\ attempt' = [attempt EXCEPT ![p] = 1]
          /\ pc' = [pc EXCEPT ![p] = "get"]
          /\ UNCHANGED resp
  /\ UNCHANGED ops
  /\ UNCHANGED <<store, nextSha, stalePaths, faults, envOk, kind, body, sha,
                 currentHtml, basis, hist>>

\* ------------------------- POST /patch-slug-github, first revision
\* The first revision of the server file starts one upsertGithubFile call
\* per given file without awaiting it and then awaits Promise.all(ops); its
\* upsertGithubFile has no retry loop and does not test the GET's status.

\* validation and configuration checks; every call pushed on ops runs to
\* its first fetch, then the handler awaits Promise.all(ops)
PatchSlugStartRev1(p) ==
  /\ pc[p] = "start"
  /\ kind[p] = "patch-slug-github"
  /\ IF slugify(body[p].slug) = <<>>
     THEN /\ Respond(p, Response(400, FALSE, "slug requis", 0))
          /\ UNCHANGED ops
     ELSE IF EnvMissing
     THEN /\ Respond(p, Response(500, FALSE, "GitHub env missing", 0))
          /\ UNCHANGED ops
     ELSE IF ~hasAny(body[p])
     THEN /\ Respond(p, Response(400, FALSE, "Aucun contenu à patcher", 0))
          /\ UNCHANGED ops
     ELSE /\ ops' = [ops EXCEPT ![p] =
                 [i \in 1..Len(PatchSlugFiles(body[p])) |->
                    [path |-> PatchSlugFiles(body[p])[i].path,
                     content |-> PatchSlugFiles(body[p])[i].content,
                     pc |-> "get", sha |-> NoSha]]]
          /\ pc' = [pc EXCEPT ![p] = "all"]
          /\ UNCHANGED resp
  /\ UNCHANGED <<store, nextSha, stalePaths, faults, envOk, kind, body, files,
                 fileIdx, attempt, sha, currentHtml, basis, hist>>

\* the answer to a call's GET: sha is taken from a 200 answer, any other
\* status leaves it undefined; the PUT is sent
UpsertGetRev1(p, i) ==
  /\ i \in 1..Len(ops[p])
  /\ ops[p][i].pc = "get"
  /\ \E st \in GetStatuses(ops[p][i].path) :
       LET s == IF st = 200 THEN store[ops[p][i].path].sha ELSE NoSha
       IN /\ faults' = IF st \in FaultStatuses THEN faults - 1 ELSE faults
          /\ Log(p, Event("GET", ops[p][i].path, s, st, store[ops[p][i].path].sha,
                          NoSha, 1, 0))
          /\ ops' = [ops EXCEPT ![p][i].sha = s, ![p][i].pc = "put"]
  /\ UNCHANGED <<store, nextSha, stalePaths, envOk, kind, body, pc, files,
                 fileIdx, attempt, sha, currentHtml, basis, resp>>

\* the answer to a call's PUT.  The call's promise settles: the first
\* rejection rejects Promise.all and the catch block answers 500, the last
\* fulfilment resolves it and the handler answers ok: true.  A handler that
\* has answered is not resumed again.
UpsertPutRev1(p, i) ==
  /\ i \in 1..Len(ops[p])
  /\ ops[p][i].pc = "put"
  /\ \E st \in PutStatuses(ops[p][i].path, ops[p][i].sha) :
       /\ faults' = IF st \in FaultStatuses THEN faults - 1 ELSE faults
       /\ Log(p, Event("PUT", ops[p][i].path, ops[p][i].sha, st,
                       store[ops[p][i].path].sha,
                       IF IsOk(st) THEN nextSha ELSE NoSha, 1, 0))
       /\ IF IsOk(st)
          THEN /\ store' = Committed(ops[p][i].path, ops[p][i].content)
               /\ nextSha' = nextSha + 1
               /\ ops' = [ops EXCEPT ![p][i].pc = "fulfilled"]
               /\ IF /\ pc[p] = "all"
                     /\ \A j \in 1..Len(ops[p]) :
                          j # i => ops[p][j].pc = "fulfilled"
                  THEN Respond(p, Success(p))
                  ELSE UNCHANGED <<pc, resp>>
          ELSE /\ UNCHANGED <<store, nextSha>>
               /\ ops' = [ops EXCEPT ![p][i].pc = "rejected"]
               /\ IF pc[p] = "all"
                  THEN Respond(p, Response(500, FALSE, "GitHub upsert failed", st))
                  ELSE UNCHANGED <<pc, resp>>
  /\ UNCHANGED <<stalePaths, envOk, kind, body, files, fileIdx, attempt, sha,
                 currentHtml, basis>>

\* ----------------------------------------------------- GET /slug-files
\* const wanted = [index.html, styles/main.css, js/main.js]
wanted(slug) ==
  <<Path(slug, "/index.html"), Path(slug, "/styles/main.css"),
    Path(slug, "/js/main.js")>>

\* faulty variant: a missing file is taken for a failed read
ReadThrowsOn404(status) == ~IsOk(status)

\* getGithubContent: if (r.status === 404) return ..; if (!r.ok) throw
ReadThrows(status) == status # 404 /\ ~IsOk(status)

\* getGithubContent's result for an answer that does not throw
GithubContent(path, status) ==
  IF status = 404
  THEN [path |-> path, exists |-> FALSE, content |-> <<>>]
  ELSE [path |-> path, exists |-> TRUE, content |-> StoreAt(path).content]

\* the slug and configuration checks; then the first GET is sent
SlugFilesStart(p) ==
  /\ pc[p] = "start"
  /\ kind[p] = "slug-files"
  /\ IF slugify(body[p].slug) = <<>>
     THEN /\ Respond(p, Response(400, FALSE, "slug requis", 0))
          /\ UNCHANGED <<files, fileIdx>>
     ELSE IF EnvMissing
     THEN /\ Respond(p, Response(500, FALSE, "GitHub env missing", 0))
          /\ UNCHANGED <<files, fileIdx>>
     ELSE /\ files' = [files EXCEPT ![p] = <<>>]
          /\ fileIdx' = [fileIdx EXCEPT ![p] = 1]
          /\ pc' = [pc EXCEPT ![p] = "read"]
          /\ UNCHANGED resp
  /\ UNCHANGED ops
  /\ UNCHANGED <<store, nextSha, stalePaths, faults, envOk, kind, body, attempt,
                 sha, currentHtml, basis, hist>>

\* the answer to one GET of the loop over wanted: the result is pushed and
\* the next GET is sent, or the handler answers
SlugFilesRead(p) ==
  /\ pc[p] = "read"
  /\ LET slug == slugify(body[p].slug)
         path == wanted(slug)[fileIdx[p]]
     IN \E st \in GetStatuses(path) :
          /\ faults' = IF st \in FaultStatuses THEN faults - 1 ELSE faults
          /\ Log(p, Event("GET", path, IF st = 200 THEN StoreAt(path).sha ELSE NoSha,
                          st, StoreAt(path).sha, NoSha, 0, 0))
          /\ IF ReadThrows(st)
             THEN /\ Respond(p, Response(500, FALSE, "GitHub GET failed", st))
                  /\ UNCHANGED <<files, fileIdx>>
             ELSE LET got == Append(files[p], GithubContent(path, st))
                  IN /\ files' = [files EXCEPT ![p] = got]
                     /\ IF fileIdx[p] < Len(wanted(slug))
                        THEN /\ fileIdx' = [fileIdx EXCEPT ![p] = @ + 1]
                             /\ UNCHANGED <<pc, resp>>
                        ELSE /\ Respond(p, [Response(200, TRUE, "", 0) EXCEPT
                                              !.slug = slug, !.files = got])
                             /\ UNCHANGED fileIdx
  /\ UNCHANGED ops
  /\ UNCHANGED <<store, nextSha, stalePaths, envOk, kind, body, attempt, sha,
                 currentHtml, basis>>

\* ------------------------------------------------------------------ inputs
RawSlug == <<"M", "é", "!">>
BlankSlug == <<"!">>
SafeSlug == <<"m", "e">>
SecX == <<"x">>
SecY == <<"y">>

StorePaths == {Path(SafeSlug, f) : f \in FileNames}
IndexPath == Path(SafeSlug, "/index.html")

Absent == [exists |-> FALSE, content |-> <<>>, sha |-> NoSha]
Stored(doc) == [exists |-> TRUE, content |-> doc, sha |-> 1]

DocXY ==
  <<"a">> \o startMarker(SecX) \o <<"b">> \o endMarker(SecX) \o <<"c">>
    \o startMarker(SecY) \o <<"d">> \o endMarker(SecY) \o <<"e">>
DocNoEnd == <<"a">> \o startMarker(SecX) \o <<"b">> \o endMarker(SecY)
DocMisordered == endMarker(SecX) \o <<"b">> \o startMarker(SecX)
DocNoMarker == <<"a", "b">>
\* section y: an end-marker in front of the start-marker and one behind it;
\* section x: two end-markers behind the start-marker
DocRepeated ==
  endMarker(SecY) \o startMarker(SecY) \o <<"d">> \o endMarker(SecY)
    \o startMarker(SecX) \o <<"b">> \o endMarker(SecX) \o <<"c">>
    \o endMarker(SecX)
InitialDocs == {DocXY, DocNoEnd, DocMisordered, DocNoMarker, DocRepeated}

PatchBody(slug, section, has, frag) ==
  [slug |-> slug, section |-> section, hasFragment |-> has, htmlFragment |-> frag]

PatchBodies ==
  { PatchBody(RawSlug, <<"X">>, TRUE, <<"f">>),
    PatchBody(RawSlug, <<"y", "!">>, TRUE, <<"n", LoneSurrogate>>),
    PatchBody(BlankSlug, <<"X">>, TRUE, <<"f">>),
    PatchBody(RawSlug, <<"-">>, TRUE, <<"f">>),
    PatchBody(RawSlug, <<"X">>, FALSE, <<>>),
    PatchBody(RawSlug, <<"X">>, TRUE,
              startMarker(SecY) \o <<"é">> \o endMarker(SecY)) }

PublishBody(slug, name, hasHtml, html, hasCss, css, hasJs, js) ==
  [slug |-> slug, projectName |-> name, hasHtml |-> hasHtml, html |-> html,
   hasCss |-> hasCss, css |-> css, hasJs |-> hasJs, js |-> js]

PublishBodies ==
  { PublishBody(RawSlug, <<>>, TRUE, <<"a">>, TRUE, <<"c">>, TRUE, <<"0">>),
    PublishBody(RawSlug, <<"n">>, TRUE, <<"b">>, TRUE, <<" ">>, FALSE, <<>>),
    PublishBody(BlankSlug, <<>>, TRUE, <<"a">>, FALSE, <<>>, FALSE, <<>>),
    PublishBody(RawSlug, <<>>, FALSE, <<>>, FALSE, <<>>, FALSE, <<>>) }

\* ---------------------------------------------------------- specifications
InitRequests ==
  /\ nextSha = 2
  /\ pc = [p \in Procs |-> "start"]
  /\ files = [p \in Procs |-> <<>>]
  /\ fileIdx = [p \in Procs |-> 0]
  /\ attempt = [p \in Procs |-> 0]
  /\ sha = [p \in Procs |-> NoSha]
  /\ currentHtml = [p \in Procs |-> <<>>]
  /\ basis = [p \in Procs |-> NoSha]
  /\ hist = [p \in Procs |-> <<>>]
  /\ ops = [p \in Procs |-> <<>>]
  /\ resp = [p \in Procs |-> NoResp]

\* two concurrent patch-section-github requests on one published site
InitPatch ==
  /\ InitRequests
  /\ faults = MaxFaults
  /\ envOk \in BOOLEAN
  /\ kind = [p \in Procs |-> "patch-section-github"]
  /\ body \in [Procs -> PatchBodies]
  /\ \E d \in {Absent} \cup {Stored(doc) : doc \in InitialDocs} :
       store = [q \in StorePaths |-> IF q = IndexPath THEN d ELSE Absent]
  /\ stalePaths \in {{}, {IndexPath}}

NextPatch ==
  \/ \E p \in Procs : PatchStart(p)
  \/ \E p \in Procs : PatchRead(p)
  \/ \E p \in Procs : UpsertGet(p)
  \/ \E p \in Procs : UpsertPut(p)
  \/ \E p \in Procs : UpsertBackoff(p)

SpecPatch == InitPatch /\ [][NextPatch]_vars

\* two concurrent publish-slug-github requests
InitPublish ==
  /\ InitRequests
  /\ faults = MaxFaults
  /\ envOk \in BOOLEAN
  /\ kind = [p \in Procs |-> "publish-slug-github"]
  /\ body \in [Procs -> PublishBodies]
  /\ \E d \in {Absent, Stored(<<"o">>)} : store = [q \in StorePaths |-> d]
  /\ stalePaths \in {{}} \cup {{q} : q \in StorePaths}

NextPublish ==
  \/ \E p \in Procs : PublishStart(p)
  \/ \E p \in Procs : UpsertGet(p)
  \/ \E p \in Procs : UpsertPut(p)
  \/ \E p \in Procs : UpsertBackoff(p)

SpecPublish == InitPublish /\ [][NextPublish]_vars

\* two concurrent publish-slug-github requests of the same four files onto
\* an empty site, while the store's transport fails more than once
InitOutage ==
  /\ InitRequests
  /\ faults = MaxFaults + 1
  /\ envOk = TRUE
  /\ kind = [p \in Procs |-> "publish-slug-github"]
  /\ body = [p \in Procs |->
               PublishBody(RawSlug, <<>>, TRUE, <<"a">>, TRUE, <<"c">>, TRUE, <<"0">>)]
  /\ store = [q \in StorePaths |-> Absent]
  /\ stalePaths = {}

SpecOutage == InitOutage /\ [][NextPublish]_vars

PatchSlugBodies ==
  { PublishBody(RawSlug, <<>>, TRUE, <<"b">>, FALSE, <<>>, TRUE, <<"1">>),
    PublishBody(RawSlug, <<>>, FALSE, <<>>, TRUE, <<"c">>, FALSE, <<>>),
    PublishBody(RawSlug, <<>>, TRUE, <<" ">>, TRUE, <<LF>>, FALSE, <<>>),
    PublishBody(BlankSlug, <<>>, TRUE, <<"b">>, FALSE, <<>>, FALSE, <<>>) }

\* req.query of GET /slug-files
SlugQuery(slug) == [slug |-> slug]

Requests ==
  {[kind |-> "publish-slug-github", body |-> b] : b \in PublishBodies}
    \cup {[kind |-> "patch-slug-github", body |-> b] : b \in PatchSlugBodies}
    \cup {[kind |-> "patch-section-github", body |-> b] : b \in PatchBodies}
    \cup {[kind |-> "slug-files", body |-> SlugQuery(sl)] : sl \in {RawSlug, BlankSlug}}

\* one request to any of the four routes, concurrent with a publish of the
\* same site
InitRoutes ==
  /\ InitRequests
  /\ faults = MaxFaults
  /\ envOk \in BOOLEAN
  /\ \E rq \in Requests :
       /\ kind = [p \in Procs |-> IF p = "r1" THEN rq.kind ELSE "publish-slug-github"]
       /\ body = [p \in Procs |->
                    IF p = "r1" THEN rq.body
                    ELSE PublishBody(RawSlug, <<>>, TRUE, <<"a">>, TRUE, <<"c">>,
                                     TRUE, <<"0">>)]
  /\ \E d \in {Absent, Stored(DocXY)} :
       store = [q \in StorePaths |-> IF q = IndexPath THEN d ELSE Absent]
  /\ stalePaths = {}

NextRoutes ==
  \/ \E p \in Procs : PublishStart(p)
  \/ \E p \in Procs : PatchSlugStart(p)
  \/ \E p \in Procs : PatchStart(p)
  \/ \E p \in Procs : PatchRead(p)
  \/ \E p \in Procs : SlugFilesStart(p)
  \/ \E p \in Procs : SlugFilesRead(p)
  \/ \E p \in Procs : UpsertGet(p)
  \/ \E p \in Procs : UpsertPut(p)
  \/ \E p \in Procs : UpsertBackoff(p)

SpecRoutes == InitRoutes /\ [][NextRoutes]_vars

\* two concurrent patch-slug-github requests served by the first revision
InitPatchSlugRev1 ==
  /\ InitRequests
  /\ faults = MaxFaults
  /\ envOk \in BOOLEAN
  /\ kind = [p \in Procs |-> "patch-slug-github"]
  /\ body \in [Procs -> PatchSlugBodies]
  /\ \E d \in {Absent, Stored(<<"o">>)} : store = [q \in StorePaths |-> d]
  /\ stalePaths \in {{}, {Path(SafeSlug, "/js/main.js")}}

NextPatchSlugRev1 ==
  \/ \E p \in Procs : PatchSlugStartRev1(p)
  \/ \E p \in Procs : \E i \in 1..3 : UpsertGetRev1(p, i)
  \/ \E p \in Procs : \E i \in 1..3 : UpsertPutRev1(p, i)

SpecPatchSlugRev1 == InitPatchSlugRev1 /\ [][NextPatchSlugRev1]_vars

\* "Mon Café!" and "mon-cafe"
MonCafeBang == <<"M", "o", "n", " ", "C", "a", "f", "é", "!">>
MonCafe == <<"m", "o", "n", "-", "c", "a", "f", "e">>

SlugAlphabet == {"M", "é", "!", " ", "-", "a"}
SlugInputs ==
  {MonCafeBang, MonCafe}
    \cup UNION {[1..n -> SlugAlphabet] : n \in 0..MaxSlugLen}

\* two GET /slug-files requests; the slug of one is any short string
InitSlug ==
  /\ InitRequests
  /\ faults = MaxFaults
  /\ envOk = TRUE
  /\ kind = [p \in Procs |-> "slug-files"]
  /\ \E a \in SlugInputs : \E b \in {MonCafeBang, MonCafe} :
       body = [p \in Procs |-> SlugQuery(IF p = "r1" THEN a ELSE b)]
  /\ store = [q \in StorePaths |-> IF q = IndexPath THEN Stored(DocXY) ELSE Absent]
  /\ stalePaths = {}

NextSlug ==
  \/ \E p \in Procs : SlugFilesStart(p)
  \/ \E p \in Procs : SlugFilesRead(p)

SpecSlug == InitSlug /\ [][NextSlug]_vars

TypeOK ==
  /\ nextSha \in Nat
  /\ faults \in 0..(MaxFaults + 1)
  /\ \A p \in Procs :
       pc[p] \in {"start", "patchRead", "read", "all", "get", "put", "backoff",
                  "done"}
  /\ \A p \in Procs : attempt[p] \in 0..5

\* ------------------------------------------------------------- properties
\* the store requests of one upsertGithubFile call: request p, file path q
UpsertEvents(p, op, q) ==
  SelectSeq(hist[p], LAMBDA e : e.op = op /\ e.path = q /\ e.attempt >= 1)

AllOf(seq, P(_)) == \A i \in 1..Len(seq) : P(seq[i])

NoFaultOn(p, q) ==
  AllOf(hist[p], LAMBDA e : e.path = q => e.status \notin FaultStatuses)

\* C1: an upsertGithubFile call makes at most 5 reads and 5 writes; when the
\* store answers every one of its writes with 409 (and every read normally),
\* the call makes exactly 5 attempts and the request ends with the error of
\* the conflict (status 409).
C1_RetryCeiling ==
  \A p \in Procs : \A q \in StorePaths :
    LET gets == UpsertEvents(p, "GET", q)
        puts == UpsertEvents(p, "PUT", q)
    IN /\ Len(gets) <= 5
       /\ Len(puts) <= 5
       /\ attempt[p] <= 5
       /\ ( /\ pc[p] = "done"
            /\ puts # <<>>
            /\ AllOf(puts, LAMBDA e : e.status = 409)
            /\ NoFaultOn(p, q) )
          => /\ Len(puts) = 5
             /\ Len(gets) = 5
             /\ resp[p] = Response(500, FALSE, "GitHub upsert failed", 409)

C1_Witness ==
  \E p \in Procs : \E q \in StorePaths :
    /\ pc[p] = "done"
    /\ Len(UpsertEvents(p, "PUT", q)) = 5
    /\ AllOf(UpsertEvents(p, "PUT", q), LAMBDA e : e.status = 409)
    /\ resp[p].upstream = 409

\* C2: when two upsertGithubFile calls send their first write with the same
\* version token and one of the writes is accepted, the other one's first
\* write is answered 409; its second attempt re-reads the token, and when
\* the path was not written again in between, that write is accepted and
\* the request is answered ok.
C2_ConflictThenRetry ==
  \A p \in Procs : \A q \in Procs \ {p} :
    LET mine == UpsertEvents(p, "PUT", IndexPath)
        theirs == UpsertEvents(q, "PUT", IndexPath)
    IN ( /\ mine # <<>>
         /\ theirs # <<>>
         /\ mine[1].sha # NoSha
         /\ mine[1].sha = theirs[1].sha
         /\ IsOk(theirs[1].status)
         /\ mine[1].status \notin FaultStatuses )
       => /\ mine[1].status = 409
          /\ ( /\ Len(mine) >= 2
               /\ mine[2].cur = mine[1].cur
               /\ mine[2].status \notin FaultStatuses )
             => /\ mine[2].sha = mine[2].cur
                /\ IsOk(mine[2].status)
                /\ pc[p] = "done"
                /\ resp[p] = Success(p)

C2_Witness ==
  \E p \in Procs : \E q \in Procs \ {p} :
    LET mine == UpsertEvents(p, "PUT", IndexPath)
        theirs == UpsertEvents(q, "PUT", IndexPath)
    IN /\ Len(mine) = 2
       /\ theirs # <<>>
       /\ mine[1].sha # NoSha
       /\ mine[1].sha = theirs[1].sha
       /\ IsOk(theirs[1].status)
       /\ mine[1].status = 409
       /\ IsOk(mine[2].status)
       /\ resp[p].ok

\* ---- section patching
AcceptedPuts(p) == SelectSeq(hist[p], LAMBDA e : e.op = "PUT" /\ IsOk(e.status))

\* the document now stored under index.html is the one request p wrote
StoredBy(p) ==
  /\ AcceptedPuts(p) # <<>>
  /\ store[IndexPath].sha = AcceptedPuts(p)[1].tok

ReadOk(p) == hist[p] # <<>> /\ hist[p][1].op = "GET" /\ hist[p][1].status = 200

IsPrefix(x, s) == Len(x) <= Len(s) /\ SubSeq(s, 1, Len(x)) = x
IsSuffix(x, s) == Len(x) <= Len(s) /\ SubSeq(s, Len(s) - Len(x) + 1, Len(s)) = x
Occurrences(s, m) ==
  Cardinality({i \in 0..(Len(s) - Len(m)) : SubSeq(s, i + 1, i + Len(m)) = m})

StartOf(name) == <<"<!-- SECTION:">> \o name \o <<":start -->">>
EndOf(name) == <<"<!-- SECTION:">> \o name \o <<":end -->">>
\* a document of the form A + start + B + end + C, each marker occurring once
WellFormed(doc, name) ==
  /\ Occurrences(doc, StartOf(name)) = 1
  /\ Occurrences(doc, EndOf(name)) = 1
  /\ IndexOf(doc, StartOf(name)) < IndexOf(doc, EndOf(name))
PartA(doc, name) == Slice(doc, 0, IndexOf(doc, StartOf(name)))
PartC(doc, name) == SliceFrom(doc, IndexOf(doc, EndOf(name)) + Len(EndOf(name)))
Interior(doc, name) ==
  Slice(doc, IndexOf(doc, StartOf(name)) + Len(StartOf(name)),
        IndexOf(doc, EndOf(name)))

\* C3 (as claimed): every write of a patch-section-github request that the
\* store accepts is conditioned on the version token that came with the
\* document the new content was computed from.
C3_WriteFromTokenContent ==
  \A p \in Procs :
    AllOf(AcceptedPuts(p), LAMBDA e : e.sha = basis[p])

\* C4 (as claimed): when two patch-section-github requests for different
\* sections of the same index.html both answer ok, the stored document has
\* both new fragments inside their sections.
C4_BothPatchesSurvive ==
  \A p \in Procs : \A q \in Procs \ {p} :
    ( /\ pc[p] = "done" /\ resp[p].ok
      /\ pc[q] = "done" /\ resp[q].ok
      /\ SectionName(body[p].section) # SectionName(body[q].section) )
    => /\ IndexOf(Interior(store[IndexPath].content, SectionName(body[p].section)),
                  Utf8(body[p].htmlFragment)) # -1
       /\ IndexOf(Interior(store[IndexPath].content, SectionName(body[q].section)),
                  Utf8(body[q].htmlFragment)) # -1

\* C5 (as claimed): patching section x with D in A + start + B + end + C
\* stores exactly A + start + D + end + C.
C5_ExactSplice ==
  \A p \in Procs :
    LET name == SectionName(body[p].section)
        old == currentHtml[p]
    IN (StoredBy(p) /\ WellFormed(old, name))
       => store[IndexPath].content =
            PartA(old, name) \o StartOf(name) \o body[p].htmlFragment
              \o EndOf(name) \o PartC(old, name)

\* C5 (amended): patching section x with D, when the document read is
\* A + start + B + end + C, stores A + start + LF + D + LF + end + C, D in
\* its UTF-8 form; the request submits that text with D as given.
C5_SpliceWithLineFeeds ==
  \A p \in Procs :
    LET name == SectionName(body[p].section)
        old == currentHtml[p]
    IN /\ (ReadOk(p) /\ files[p] # <<>> /\ WellFormed(old, name))
          => files[p][1].content =
               PartA(old, name) \o StartOf(name) \o <<LF>>
                 \o body[p].htmlFragment \o <<LF>>
                 \o EndOf(name) \o PartC(old, name)
       /\ (StoredBy(p) /\ WellFormed(old, name))
          => store[IndexPath].content =
               PartA(old, name) \o StartOf(name) \o <<LF>>
                 \o Utf8(body[p].htmlFragment) \o <<LF>>
                 \o EndOf(name) \o PartC(old, name)

C5_Witness ==
  \E p \in Procs :
    /\ StoredBy(p)
    /\ WellFormed(currentHtml[p], SectionName(body[p].section))
    /\ resp[p].ok
    /\ PartC(currentHtml[p], SectionName(body[p].section)) # <<>>

\* C6: the document a successful section patch writes begins with the text
\* of the document it read up to and including the first start-marker, and
\* ends with that document's text from the first end-marker onward; the two
\* parts do not overlap.
C6_FramePreserved ==
  \A p \in Procs :
    LET name == SectionName(body[p].section)
        old == currentHtml[p]
        head == Slice(old, 0, IndexOf(old, StartOf(name)) + Len(StartOf(name)))
        tail == SliceFrom(old, IndexOf(old, EndOf(name)))
    IN /\ (ReadOk(p) /\ files[p] # <<>>)
          => /\ IsPrefix(head, files[p][1].content)
             /\ IsSuffix(tail, files[p][1].content)
             /\ IsSuffix(StartOf(name), head)
             /\ IsPrefix(EndOf(name), tail)
             /\ Len(files[p][1].content) =
                  Len(head) + Len(body[p].htmlFragment) + 2 + Len(tail)
       /\ StoredBy(p)
          => /\ IsPrefix(head, store[IndexPath].content)
             /\ IsSuffix(tail, store[IndexPath].content)
             /\ Len(store[IndexPath].content) >= Len(head) + Len(tail)

C6_Witness ==
  \E p \in Procs :
    /\ StoredBy(p)
    /\ resp[p].ok
    /\ IndexOf(currentHtml[p], StartOf(SectionName(body[p].section))) > 0
    /\ Len(hist[p]) > 3

\* C7: when the document read lacks the start-marker or the end-marker of
\* the section, or the end-marker does not come after the start-marker, the
\* request ends with the section-not-found answer (400) having made no
\* store request but its read; if no request wrote, the store is as it was.
C7_SectionNotFound ==
  /\ \A p \in Procs :
       LET name == SectionName(body[p].section)
           s == IndexOf(currentHtml[p], StartOf(name))
           e == IndexOf(currentHtml[p], EndOf(name))
       IN (ReadOk(p) /\ kind[p] = "patch-section-github"
             /\ (s = -1 \/ e = -1 \/ e <= s))
          => /\ pc[p] = "done"
             /\ resp[p] = Response(400, FALSE, "Section introuvable dans index.html", 0)
             /\ Len(hist[p]) = 1
             /\ files[p] = <<>>
  /\ (\A p \in Procs : AllOf(hist[p], LAMBDA ev : ev.op # "PUT"))
       => /\ nextSha = 2
          /\ store[IndexPath].sha \in {NoSha, 1}

C7_Witness ==
  \E p \in Procs :
    LET name == SectionName(body[p].section)
        s == IndexOf(currentHtml[p], StartOf(name))
        e == IndexOf(currentHtml[p], EndOf(name))
    IN /\ ReadOk(p)
       /\ s # -1 /\ e # -1 /\ e <= s
       /\ resp[p].http = 400
       /\ store[IndexPath].content = DocMisordered

\* C8 (as claimed): a patch-section-github request whose read of index.html
\* is answered 404 makes no write and ends with an answer of another kind
\* (HTTP status or error text) than a request whose read failed in transport
\* or authentication.
C8_NotFoundDistinct ==
  \A p \in Procs :
    (hist[p] # <<>> /\ hist[p][1].attempt = 0 /\ hist[p][1].status = 404)
    => /\ pc[p] = "done"
       /\ Len(hist[p]) = 1
       /\ \A q \in Procs :
            (hist[q] # <<>> /\ hist[q][1].attempt = 0
               /\ hist[q][1].status \in FaultStatuses)
            => (resp[p].http # resp[q].http \/ resp[p].error # resp[q].error)

\* ---- batch publishing
\* the paths of a sequence of events, runs of one path taken once
RECURSIVE PathRuns(_)
PathRuns(evs) ==
  IF evs = <<>> THEN <<>>
  ELSE IF Len(evs) >= 2 /\ evs[1].path = evs[2].path THEN PathRuns(Tail(evs))
       ELSE <<evs[1].path>> \o PathRuns(Tail(evs))

\* index.html, README.txt, then styles/main.css and js/main.js when supplied
ListOrder(b) ==
  <<SafeSlug \o <<"/index.html">>, SafeSlug \o <<"/README.txt">>>>
    \o (IF b.hasCss /\ Trim(b.css) # <<>>
        THEN <<SafeSlug \o <<"/styles/main.css">>>> ELSE <<>>)
    \o (IF b.hasJs /\ Trim(b.js) # <<>>
        THEN <<SafeSlug \o <<"/js/main.js">>>> ELSE <<>>)

\* the answer that ends an upsertGithubFile call with an error
Failing(e) ==
  \/ e.op = "GET" /\ e.status \notin {200, 404}
  \/ e.op = "PUT" /\ ~IsOk(e.status) /\ ~(e.status = 409 /\ e.attempt < 5)

\* C9: the store requests of one publish-slug-github request go through its
\* files in list order, every file's requests forming one run, and the run
\* of a file begins only after the previous file's write was accepted.
C9_SequentialInOrder ==
  \A p \in Procs :
    /\ IsPrefix(PathRuns(hist[p]), ListOrder(body[p]))
    /\ \A i \in 1..(Len(hist[p]) - 1) :
         hist[p][i + 1].path # hist[p][i].path
           => /\ hist[p][i].op = "PUT" /\ IsOk(hist[p][i].status)
              /\ hist[p][i + 1].op = "GET" /\ hist[p][i + 1].attempt = 1
    /\ \A i \in 1..(Len(hist[p]) - 1) :
         (hist[p][i].op = "PUT" /\ IsOk(hist[p][i].status))
           => hist[p][i + 1].path # hist[p][i].path

C9_Witness ==
  \E p \in Procs :
    /\ pc[p] = "done"
    /\ resp[p].ok
    /\ Len(PathRuns(hist[p])) = 4
    /\ \E i \in 1..Len(hist[p]) :
         hist[p][i].op = "WAIT" /\ hist[p][i].path = SafeSlug \o <<"/README.txt">>

\* C10: when the upsert of file k of a publish batch fails, that answer is
\* the request's last store request (nothing is sent for a later file), the
\* request is answered 500, and each of the files 1..k-1 still has the
\* accepted write in the store: its path holds that content or a newer
\* version, never an older one.
C10_PartialFailure ==
  \A p \in Procs : \A j \in 1..Len(hist[p]) :
    Failing(hist[p][j])
    => /\ j = Len(hist[p])
       /\ pc[p] = "done"
       /\ resp[p].http = 500 /\ ~resp[p].ok
       /\ hist[p][j].path = files[p][fileIdx[p]].path
       /\ \A i \in (fileIdx[p] + 1)..Len(files[p]) :
            AllOf(hist[p], LAMBDA e : e.path # files[p][i].path)
       /\ \A i \in 1..(fileIdx[p] - 1) :
            \E n \in 1..Len(hist[p]) :
              LET e == hist[p][n]
              IN /\ e.op = "PUT" /\ IsOk(e.status) /\ e.path = files[p][i].path
                 /\ store[e.path].exists
                 /\ store[e.path].sha >= e.tok
                 /\ store[e.path].sha = e.tok
                      => store[e.path].content = Utf8(files[p][i].content)

C10_Witness ==
  \E p \in Procs :
    /\ pc[p] = "done"
    /\ resp[p].http = 500
    /\ fileIdx[p] = 2
    /\ Len(files[p]) = 4
    /\ Len(UpsertEvents(p, "PUT", files[p][2].path)) = 5
    /\ store[files[p][1].path].content = files[p][1].content

\* ---- retry policy
\* C12: in upsertGithubFile a read answered with a status other than 200 or
\* 404, and a write rejected with a status other than 409, is the call's
\* last store request: no wait, read or write follows, and the request is
\* answered with that error.
C12_TransportFailsFast ==
  \A p \in Procs : \A j \in 1..Len(hist[p]) :
    LET e == hist[p][j]
    IN ( /\ e.attempt >= 1
         /\ \/ e.op = "GET" /\ e.status \notin {200, 404}
            \/ e.op = "PUT" /\ ~IsOk(e.status) /\ e.status # 409 )
       => /\ j = Len(hist[p])
          /\ pc[p] = "done"
          /\ ~resp[p].ok
          /\ resp[p].http = 500
          /\ resp[p].upstream = e.status

C12_Witness ==
  \E p \in Procs :
    /\ pc[p] = "done"
    /\ hist[p] # <<>>
    /\ hist[p][Len(hist[p])].op = "PUT"
    /\ hist[p][Len(hist[p])].status \in {401, 422, 500}
    /\ hist[p][Len(hist[p])].attempt = 2

\* C13: every write of upsertGithubFile follows the read of the same
\* attempt on the same path and carries the token the store held at that
\* read when it answered 200, and no token when it answered 404.
C13_WriteCarriesReadToken ==
  \A p \in Procs : \A j \in 1..Len(hist[p]) :
    hist[p][j].op = "PUT"
    => /\ j > 1
       /\ LET e == hist[p][j]
              g == hist[p][j - 1]
          IN /\ g.op = "GET"
             /\ g.path = e.path
             /\ g.attempt = e.attempt
             /\ g.status \in {200, 404}
             /\ g.status = 404 => (g.cur = NoSha /\ e.sha = NoSha)
             /\ g.status = 200 => (g.cur # NoSha /\ e.sha = g.cur)

C13_Witness ==
  \E p \in Procs : \E q \in StorePaths :
    LET puts == UpsertEvents(p, "PUT", q)
    IN /\ Len(puts) >= 2
       /\ puts[1].sha = NoSha
       /\ puts[2].sha # NoSha
       /\ IsOk(puts[2].status)

\* C20: a request is answered with the conflict error of upsertGithubFile
\* only after 5 writes of that call were all answered 409; a write accepted
\* at attempt k follows k-1 writes answered 409, ends the call, and when it
\* was the request's last file the answer is the plain success answer.
C20_ConflictOnlyAfterFive ==
  \A p \in Procs :
    /\ (resp[p].error = "GitHub upsert failed" /\ resp[p].upstream = 409)
       => LET puts == UpsertEvents(p, "PUT", files[p][fileIdx[p]].path)
          IN /\ Len(puts) = 5
             /\ AllOf(puts, LAMBDA e : e.status = 409)
    /\ \A j \in 1..Len(hist[p]) :
         (hist[p][j].op = "PUT" /\ IsOk(hist[p][j].status))
         => LET e == hist[p][j]
                puts == UpsertEvents(p, "PUT", e.path)
            IN /\ Len(puts) = e.attempt
               /\ e.attempt <= 5
               /\ \A k \in 1..(e.attempt - 1) : puts[k].status = 409
               /\ j < Len(hist[p]) => hist[p][j + 1].path # e.path
               /\ (j = Len(hist[p]) /\ pc[p] = "done")
                    => resp[p] = Success(p)

C20_Witness ==
  \E p \in Procs : \E j \in 1..Len(hist[p]) :
    /\ pc[p] = "done"
    /\ resp[p].ok
    /\ hist[p][j].op = "PUT"
    /\ hist[p][j].status = 409
    /\ hist[p][j].path = files[p][Len(files[p])].path

\* ---- write, then read
\* C17 (as claimed): when the document stored under a path is the one an
\* upsertGithubFile call wrote, it is exactly the content the call was given
\* and its token differs from the token the path had before the write.
C17_RoundTrip ==
  \A p \in Procs :
    StoredBy(p)
    => /\ store[IndexPath].content = files[p][1].content
       /\ store[IndexPath].sha # AcceptedPuts(p)[1].cur

\* C17 (amended): the stored document is the content in its UTF-8 form,
\* which is the content itself when it has no unpaired surrogate and has
\* U+FFFD in the place of each unpaired surrogate otherwise; the token
\* differs from the one before the write.
C17_RoundTripEncoded ==
  \A p \in Procs :
    StoredBy(p)
    => LET given == files[p][1].content
           read == store[IndexPath].content
       IN /\ Len(read) = Len(given)
          /\ \A i \in 1..Len(given) :
               read[i] = IF given[i] = "U+D800" THEN "U+FFFD" ELSE given[i]
          /\ (\A i \in 1..Len(given) : given[i] # "U+D800") => read = given
          /\ store[IndexPath].exists
          /\ store[IndexPath].sha # AcceptedPuts(p)[1].cur
          /\ store[IndexPath].sha # NoSha

C17_Witness ==
  \E p \in Procs :
    /\ StoredBy(p)
    /\ resp[p].ok
    /\ \E i \in 1..Len(files[p][1].content) : files[p][1].content[i] = "é"
    /\ store[IndexPath].content = files[p][1].content

\* C18 (as claimed): when a successful patch of section y is computed from
\* and written onto the document an earlier successful patch of another
\* section x left, the text between x's markers and the number of x's
\* markers are the same before and after.
C18_OtherSectionsUntouched ==
  \A p \in Procs : \A q \in Procs \ {p} :
    LET x == SectionName(body[q].section)
        old == currentHtml[p]
        new == store[IndexPath].content
    IN ( /\ AcceptedPuts(q) # <<>>
         /\ basis[p] = AcceptedPuts(q)[1].tok
         /\ StoredBy(p)
         /\ AcceptedPuts(p)[1].sha = basis[p]
         /\ SectionName(body[p].section) # x )
       => /\ Interior(new, x) = Interior(old, x)
          /\ Occurrences(new, StartOf(x)) = Occurrences(old, StartOf(x))
          /\ Occurrences(new, EndOf(x)) = Occurrences(old, EndOf(x))

\* ---- error reports
\* C11 (as claimed): the error answer of a publish-slug-github request whose
\* upsert failed tells which path failed and how many files were written
\* before it: two failed requests with the same answer failed at the same
\* path, after the same number of files.
C11_ErrorIdentifiesFailure ==
  \A p \in Procs : \A q \in Procs \ {p} :
    ( /\ pc[p] = "done" /\ hist[p] # <<>> /\ ~resp[p].ok
      /\ pc[q] = "done" /\ hist[q] # <<>> /\ ~resp[q].ok
      /\ resp[p] = resp[q] )
    => /\ filePath(p) = filePath(q)
       /\ fileIdx[p] - 1 = fileIdx[q] - 1

\* ---- validation
\* the request is one the handler's checks reject: the slug normalizes to
\* nothing, or the content the route requires is missing
Invalid(p) ==
  \/ slugify(body[p].slug) = <<>>
  \/ /\ kind[p] = "publish-slug-github"
     /\ (~body[p].hasHtml \/ body[p].html = <<>>)
  \/ /\ kind[p] = "patch-slug-github"
     /\ \A v \in {<<body[p].hasHtml, body[p].html>>, <<body[p].hasCss, body[p].css>>,
                  <<body[p].hasJs, body[p].js>>} :
          ~v[1] \/ \A i \in 1..Len(v[2]) : v[2][i] \in {" ", "\n"}
  \/ /\ kind[p] = "patch-section-github"
     /\ \/ SectionName(body[p].section) = <<>>
        \/ ~body[p].hasFragment
        \/ body[p].htmlFragment = <<>>

\* C14: a publish-slug-github, patch-slug-github or patch-section-github
\* request that fails validation, or that arrives while the store's
\* credentials are missing, never sends a read or a write to the store and
\* is answered with an error.
C14_RejectedBeforeStore ==
  \A p \in Procs :
    ( /\ kind[p] \in {"publish-slug-github", "patch-slug-github",
                      "patch-section-github"}
      /\ (Invalid(p) \/ ~envOk) )
    => /\ hist[p] = <<>>
       /\ pc[p] \in {"start", "done"}
       /\ pc[p] = "done" => (~resp[p].ok /\ resp[p].http \in {400, 500})

C14_Witness ==
  /\ \A p \in Procs : pc[p] = "done"
  /\ ~envOk
  /\ kind["r1"] = "patch-slug-github"
  /\ hasAny(body["r1"])
  /\ resp["r1"].http = 500
  /\ hist["r1"] = <<>>

\* ---- slug normalization
AZ09 ==
  {"a", "b", "c", "d", "e", "f", "g", "h", "i", "j", "k", "l", "m", "n", "o",
   "p", "q", "r", "s", "t", "u", "v", "w", "x", "y", "z",
   "0", "1", "2", "3", "4", "5", "6", "7", "8", "9"}

\* empty, or runs of a-z0-9 joined by single "-", no "-" at either end
NormalForm(s) ==
  \/ s = <<>>
  \/ /\ \A i \in 1..Len(s) : s[i] \in AZ09 \cup {"-"}
     /\ s[1] # "-"
     /\ s[Len(s)] # "-"
     /\ \A i \in 1..(Len(s) - 1) : ~(s[i] = "-" /\ s[i + 1] = "-")

\* C15: slugify maps "Mon Café!" and "mon-cafe" to "mon-cafe"; every result
\* of slugify is empty or is made of runs of a-z and 0-9 joined by single
\* "-", with no "-" in front or at the end; and that result is the slug a
\* GET /slug-files request answers with and reads under.
C15_SlugNormalForm ==
  \A p \in Procs :
    LET s == slugify(body[p].slug)
    IN /\ NormalForm(s)
       /\ body[p].slug \in {<<"M", "o", "n", " ", "C", "a", "f", "é", "!">>,
                            <<"m", "o", "n", "-", "c", "a", "f", "e">>}
          => s = <<"m", "o", "n", "-", "c", "a", "f", "e">>
       /\ resp[p].ok => (resp[p].slug = s /\ s # <<>>)
       /\ \A i \in 1..Len(hist[p]) :
            /\ NormalForm(SubSeq(hist[p][i].path, 1, Len(hist[p][i].path) - 1))
            /\ Len(hist[p][i].path) > 1

C15_Witness ==
  /\ body["r1"].slug = <<"M", "o", "n", " ", "C", "a", "f", "é", "!">>
  /\ body["r2"].slug = <<"m", "o", "n", "-", "c", "a", "f", "e">>
  /\ resp["r1"].ok
  /\ resp["r2"].ok
  /\ resp["r1"].slug = resp["r2"].slug
  /\ resp["r1"].slug = <<"m", "o", "n", "-", "c", "a", "f", "e">>

\* ---- missing files
\* C16: a GET answered 404 is not an error.  A slug-files request whose
\* reads were all answered 200 or 404 answers ok with one entry per wanted
\* path, exists = false exactly for the paths answered 404; and a 404 read
\* of upsertGithubFile leaves sha undefined and is followed by the PUT of
\* that path without sha, which creates the file when the store accepts it.
C16_MissingIsNormal ==
  \A p \in Procs :
    /\ ( /\ kind[p] = "slug-files"
         /\ pc[p] = "done"
         /\ hist[p] # <<>>
         /\ AllOf(hist[p], LAMBDA e : e.status \in {200, 404}) )
       => /\ resp[p].ok
          /\ resp[p].http = 200
          /\ Len(resp[p].files) = 3
          /\ Len(hist[p]) = 3
          /\ \A i \in 1..3 :
               /\ resp[p].files[i].path = hist[p][i].path
               /\ resp[p].files[i].exists = (hist[p][i].status = 200)
    /\ kind[p] # "slug-files"
       => \A i \in 1..Len(hist[p]) :
            LET e == hist[p][i]
            IN (e.op = "GET" /\ e.attempt >= 1 /\ e.status = 404)
               => /\ e.sha = NoSha
                  /\ IF i = Len(hist[p])
                     THEN pc[p] = "put" /\ resp[p] = NoResp
                     ELSE /\ hist[p][i + 1].op = "PUT"
                          /\ hist[p][i + 1].path = e.path
                          /\ hist[p][i + 1].sha = NoSha
                          /\ hist[p][i + 1].status = 201 => hist[p][i + 1].tok # NoSha

C16_Witness ==
  /\ kind["r1"] = "slug-files"
  /\ resp["r1"].ok
  /\ \E i \in 1..3 : ~resp["r1"].files[i].exists
  /\ \E i \in 1..3 : resp["r1"].files[i].exists
  /\ \E i \in 1..(Len(hist["r2"]) - 1) :
       /\ hist["r2"][i].op = "GET"
       /\ hist["r2"][i].status = 404
       /\ hist["r2"][i + 1].status = 201

\* ---- nothing after the answer
\* C19 (as claimed): in every revision of the handlers, a request that has
\* sent its answer sends no further write to the store.
C19_NoWriteAfterResponse ==
  [][\A p \in Procs :
       resp[p] # NoResp
       => SelectSeq(hist'[p], LAMBDA e : e.op = "PUT")
            = SelectSeq(hist[p], LAMBDA e : e.op = "PUT")]_vars

\* ---- backoff
Waits(p, q) == SelectSeq(hist[p], LAMBDA e : e.op = "WAIT" /\ e.path = q)

\* C21: within one upsertGithubFile call the k-th wait follows the k-th
\* attempt's conflicting write and lasts 150 * k milliseconds; the delays
\* grow strictly (150, 300, 450, 600), the call waits at most 4 times, and
\* nothing is waited after the 5th attempt.
C21_BackoffSchedule ==
  \A p \in Procs : \A q \in StorePaths :
    LET waits == Waits(p, q)
    IN /\ Len(waits) <= 4
       /\ \A k \in 1..Len(waits) :
            /\ waits[k].attempt = k
            /\ waits[k].ms = 150 * k
            /\ waits[k].ms \in {150, 300, 450, 600}
            /\ k > 1 => waits[k].ms > waits[k - 1].ms
       /\ \A i \in 1..Len(hist[p]) :
            hist[p][i].op = "WAIT"
            => /\ i > 1
               /\ hist[p][i - 1].op = "PUT"
               /\ hist[p][i - 1].status = 409
               /\ hist[p][i - 1].path = hist[p][i].path
               /\ hist[p][i - 1].attempt = hist[p][i].attempt
               /\ hist[p][i].attempt < 5
       /\ \A i \in 1..Len(hist[p]) :
            (hist[p][i].op = "PUT" /\ hist[p][i].attempt = 5 /\ hist[p][i].path = q)
            => \A j \in (i + 1)..Len(hist[p]) :
                 ~(hist[p][j].op = "WAIT" /\ hist[p][j].path = q)

C21_Witness ==
  \E p \in Procs : \E q \in StorePaths :
    /\ pc[p] = "done"
    /\ Len(Waits(p, q)) = 4
    /\ Waits(p, q)[4].ms = 600
    /\ Len(UpsertEvents(p, "PUT", q)) = 5
    /\ resp[p].upstream = 409

\* ---- success of a batch
Blank(v) == \A i \in 1..Len(v) : v[i] \in {" ", "\n"}

\* the files of the batch a publish body stands for
BatchNames(b) ==
  {"/index.html", "/README.txt"}
    \cup (IF b.hasCss /\ ~Blank(b.css) THEN {"/styles/main.css"} ELSE {})
    \cup (IF b.hasJs /\ ~Blank(b.js) THEN {"/js/main.js"} ELSE {})

\* C22: a publish-slug-github request that has answered ok: true has had a
\* write accepted by the store for every file of its batch (index.html,
\* README.txt, and the css / js given as non-blank strings), each before the
\* answer, which is the last thing the request did.
C22_SuccessMeansAllWritten ==
  \A p \in Procs :
    (kind[p] = "publish-slug-github" /\ resp[p].ok)
    => /\ pc[p] = "done"
       /\ resp[p].http = 200
       /\ \A name \in BatchNames(body[p]) :
            \E i \in 1..Len(hist[p]) :
              /\ hist[p][i].op = "PUT"
              /\ hist[p][i].status \in {200, 201}
              /\ hist[p][i].path = SafeSlug \o <<name>>
              /\ hist[p][i].tok # NoSha
       /\ Len(AcceptedPuts(p)) = Cardinality(BatchNames(body[p]))

C22_Witness ==
  \E p \in Procs :
    /\ resp[p].ok
    /\ Cardinality(BatchNames(body[p])) = 4
    /\ Len(AcceptedPuts(p)) = 4
    /\ \E i \in 1..Len(hist[p]) : hist[p][i].op = "WAIT"

\* ---- path layout
\* the file names a route may touch
RouteNames(k) ==
  CASE k = "publish-slug-github" ->
         {"/index.html", "/README.txt", "/styles/main.css", "/js/main.js"}
    [] k = "patch-slug-github" -> {"/index.html", "/styles/main.css", "/js/main.js"}
    [] k = "patch-section-github" -> {"/index.html"}
    [] k = "slug-files" -> {"/index.html", "/styles/main.css", "/js/main.js"}

\* C23: every path a request reads or writes is its normalized slug ("me"
\* for the slug "Mé!") followed by "/" and one of index.html, README.txt,
\* styles/main.css, js/main.js; a publish writes styles/main.css or
\* js/main.js only when that input is a non-blank string, and by the time
\* it answers ok it has written index.html and README.txt.
C23_PathLayout ==
  \A p \in Procs :
    /\ \A i \in 1..Len(hist[p]) :
         /\ body[p].slug = <<"M", "é", "!">>
         /\ \E name \in RouteNames(kind[p]) :
              hist[p][i].path = <<"m", "e">> \o <<name>>
    /\ kind[p] = "publish-slug-github"
       => /\ \A i \in 1..Len(hist[p]) :
               \E name \in BatchNames(body[p]) :
                 hist[p][i].path = <<"m", "e">> \o <<name>>
          /\ resp[p].ok
             => \A name \in {"/index.html", "/README.txt"} :
                  \E i \in 1..Len(hist[p]) :
                    /\ hist[p][i].op = "PUT"
                    /\ IsOk(hist[p][i].status)
                    /\ hist[p][i].path = <<"m", "e">> \o <<name>>

C23_Witness ==
  /\ kind["r1"] = "patch-slug-github"
  /\ resp["r1"].ok
  /\ Len(AcceptedPuts("r1")) = 2
  /\ resp["r2"].ok
  /\ Len(AcceptedPuts("r2")) = 4

\* ---- repeated markers
\* 1-based positions at which m occurs in s
Positions(s, m) ==
  {i \in 1..(Len(s) - Len(m) + 1) : SubSeq(s, i, i + Len(m) - 1) = m}
Least(S) == CHOOSE i \in S : \A j \in S : i <= j

\* C24: only the first start-marker and the first end-marker count.  When
\* the document read has an end-marker in front of its first start-marker,
\* the request is answered section-not-found and writes nothing, also when
\* another end-marker stands behind the start-marker; when the first
\* end-marker stands behind the first start-marker, the document written
\* keeps everything from that first end-marker on, later end-markers
\* included.
C24_FirstOccurrencesOnly ==
  \A p \in Procs :
    LET doc == currentHtml[p]
        x == SectionName(body[p].section)
        starts == Positions(doc, <<"<!-- SECTION:">> \o x \o <<":start -->">>)
        ends == Positions(doc, <<"<!-- SECTION:">> \o x \o <<":end -->">>)
    IN (ReadOk(p) /\ starts # {} /\ ends # {})
       => /\ Least(ends) < Least(starts)
             => /\ pc[p] = "done"
                /\ resp[p] = Response(400, FALSE,
                                      "Section introuvable dans index.html", 0)
                /\ Len(hist[p]) = 1
                /\ files[p] = <<>>
          /\ Least(starts) < Least(ends)
             => /\ Len(files[p]) = 1
                /\ files[p][1].content
                     = SubSeq(doc, 1, Least(starts) + Len(x) + 1)
                         \o <<"\n">> \o body[p].htmlFragment \o <<"\n">>
                         \o SubSeq(doc, Least(ends), Len(doc))

C24_Witness ==
  \E p \in Procs : \E q \in Procs \ {p} :
    /\ currentHtml[p] = DocRepeated
    /\ SectionName(body[p].section) = SecY
    /\ resp[p].http = 400
    /\ SectionName(body[q].section) = SecX
    /\ body[q].htmlFragment = <<"f">>
    /\ StoredBy(q)
    /\ Occurrences(store[IndexPath].content, EndOf(SecX)) = 2
    /\ Occurrences(currentHtml[q], EndOf(SecX)) = 2

\* ---- concurrent publishes
\* the contents request p has for path q in its list of files
Supplied(p, q) ==
  {files[p][i].content : i \in {j \in 1..Len(files[p]) : files[p][j].path = q}}

\* the writes of request p on path q the store accepted
AcceptedOn(p, q) == SelectSeq(AcceptedPuts(p), LAMBDA e : e.path = q)

Encoded(c) == [i \in 1..Len(c) |-> IF c[i] = "U+D800" THEN "U+FFFD" ELSE c[i]]

\* every accepted write carried the token the path had when the store
\* handled it (none for a path without a file)
WritesConditioned ==
  \A p \in Procs : AllOf(AcceptedPuts(p), LAMBDA e : e.sha = e.cur)

\* C25 (as claimed): every accepted write is conditioned on the store's
\* current token, and once both publish requests have finished, every path
\* one of them has a file for holds exactly the content one of them supplied
\* for it.
C25_OneOfTheTwo ==
  /\ WritesConditioned
  /\ (\A p \in Procs : pc[p] = "done" /\ files[p] # <<>>)
     => \A q \in StorePaths :
          (\E p \in Procs : Supplied(p, q) # {})
          => /\ store[q].exists
             /\ \E p \in Procs : store[q].content \in Supplied(p, q)

\* C25 (amended): every accepted write is conditioned on the store's current
\* token; once both requests have finished, a path on which a write of one
\* of them was accepted holds the content (in its UTF-8 form) that the
\* request whose write was accepted last supplied for it, and a path on
\* which no write was accepted is as it was before the two requests.
C25_LastAcceptedWriteWins ==
  /\ WritesConditioned
  /\ (\A p \in Procs : pc[p] = "done")
     => \A q \in StorePaths :
          IF \E p \in Procs : AcceptedOn(p, q) # <<>>
          THEN \E p \in Procs :
                 /\ AcceptedOn(p, q) # <<>>
                 /\ Len(AcceptedOn(p, q)) = 1
                 /\ store[q].exists
                 /\ store[q].sha = AcceptedOn(p, q)[1].tok
                 /\ \E c \in Supplied(p, q) : store[q].content = Encoded(c)
          ELSE \/ ~store[q].exists /\ store[q].sha = NoSha
               \/ store[q] = [exists |-> TRUE, content |-> <<"o">>, sha |-> 1]

C25_Witness ==
  /\ \A p \in Procs : pc[p] = "done" /\ resp[p].ok
  /\ body["r1"].html # body["r2"].html
  /\ \E q \in StorePaths : \E i \in 1..Len(hist["r1"]) :
       hist["r1"][i].op = "PUT" /\ hist["r1"][i].status = 409 /\ hist["r1"][i].path = q
  /\ store[IndexPath].content = body["r1"].html
  /\ store[Path(SafeSlug, "/README.txt")].sha = AcceptedOn("r2", Path(SafeSlug, "/README.txt"))[1].tok

\* ---- idempotence
\* C26: slugify(slugify(s)) = slugify(s) for every input s; the slug a
\* GET /slug-files request answers with normalizes to itself, and sent back
\* it names the paths that request read.
C26_SlugifyIdempotent ==
  \A p \in Procs :
    /\ slugify(slugify(body[p].slug)) = slugify(body[p].slug)
    /\ resp[p].ok
       => /\ slugify(resp[p].slug) = resp[p].slug
          /\ \A i \in 1..Len(hist[p]) :
               hist[p][i].path = wanted(slugify(resp[p].slug))[i]

C26_Witness ==
  /\ body["r1"].slug = <<"!", "M", "é">>
  /\ resp["r1"].ok
  /\ resp["r1"].slug = <<"m", "e">>
  /\ Len(hist["r1"]) = 3
  /\ hist["r1"][1].status = 200

\* C27: when a successful patch of a section with a fragment free of marker
\* text is followed, with no other write in between, by a successful patch
\* of the same section with the same fragment, the document stored after
\* the second patch is the document the first patch left.
C27_PatchIdempotent ==
  \A p \in Procs : \A q \in Procs \ {p} :
    ( /\ AcceptedPuts(q) # <<>>
      /\ basis[p] = AcceptedPuts(q)[1].tok
      /\ StoredBy(p)
      /\ AcceptedPuts(p)[1].sha = basis[p]
      /\ SectionName(body[p].section) = SectionName(body[q].section)
      /\ body[p].htmlFragment = body[q].htmlFragment
      /\ \A i \in 1..Len(body[p].htmlFragment) :
           body[p].htmlFragment[i] \notin {"<!-- SECTION:", ":start -->", ":end -->"} )
    => /\ store[IndexPath].content = currentHtml[p]
       /\ store[IndexPath].sha # basis[p]

C27_Witness ==
  /\ body["r1"] = body["r2"]
  /\ body["r1"].htmlFragment = <<"f">>
  /\ AcceptedPuts("r1") # <<>>
  /\ basis["r2"] = AcceptedPuts("r1")[1].tok
  /\ StoredBy("r2")
  /\ store[IndexPath].content = currentHtml["r2"]
  /\ currentHtml["r1"] = DocXY

====
